---- MODULE Spec2Model ----
(***************************************************************************)
(* Nurse rostering (src/test1.py): the CP-SAT model that main() builds,    *)
(* the solutions the solver hands to NursesPartialSolutionPrinter, and     *)
(* the schedule main() reports.                                            *)
(*                                                                         *)
(* A decision variable is the key <<dep, n, day, s>>; an assignment is the *)
(* set of keys whose BoolVar is true.  Every constraint the code adds is a *)
(* sum of distinct BoolVars compared with an integer, and is kept as the   *)
(* record [keys, lo, hi] meaning  lo <= sum(keys) <= hi.                   *)
(***************************************************************************)
EXTENDS Integers, Sequences, FiniteSets

VARIABLES
    num_departments,      \* main: num_departments
    num_nurses,           \* main: num_nurses
    solution_limit,       \* the limit handed to the printer
    pc,                   \* "solve" (inside solver.Solve), "report", "done"
    trail,                \* the solver's decisions, in KeyAt order (search only)
    sol,                  \* the solution the last callback read through Value()
    seen,                 \* the solutions already handed to the callback
    solution_count,       \* _solution_count
    department_schedule,  \* _department_schedule
    stopped,              \* StopSearch() was called
    status,               \* what solver.Solve returns (main drops it)
    reported              \* the table main printed

vars == <<num_departments, num_nurses, solution_limit, pc, trail, sol, seen,
          solution_count, department_schedule, stopped, status, reported>>

-----------------------------------------------------------------------------
(* Bounds of the model *)

MaxLimit == 2
MaxFlips == 2
MaxSearchDepartments == 2
MaxSearchNurses == 3

-----------------------------------------------------------------------------
(* The calendar, lines 7-14 *)

num_days == 7
num_weekday_shifts == 2
num_weekend_shifts == 1

all_days == 0 .. (num_days - 1)
weekdays == 0 .. 4
weekends == 5 .. 6

all_departments(D) == 0 .. (D - 1)
all_nurses(N) == 0 .. (N - 1)

NumShifts(day) == IF day \in weekdays THEN num_weekday_shifts ELSE num_weekend_shifts

SlotsOf(day) == 0 .. (NumShifts(day) - 1)

None == -1

Max(S) == CHOOSE x \in S : \A y \in S : y <= x

Min2(a, b) == IF a < b THEN a ELSE b

-----------------------------------------------------------------------------
(* The decision variables, lines 19-26 *)

Shifts(D, N) ==
    UNION { { <<dep, n, day, s>> : dep \in all_departments(D), n \in all_nurses(N),
                                   s \in SlotsOf(day) } : day \in all_days }

\* The value `dep` holds after the loops of lines 21 and 29: lines 34-62 read it
\* outside any loop over the departments.
LastDep(D) == D - 1

\* sum(...) of BoolVars under the assignment a
Sum(a, keys) == Cardinality(a \cap keys)

-----------------------------------------------------------------------------
(* The constraints, lines 28-88 *)

\* mutant of AtMost: the bound is lost, any sum of the variables passes
AtMost_Unbounded(keys, k) == [keys |-> keys, lo |-> 0, hi |-> Cardinality(keys)]

\* model.Add(sum(keys) <= k)
AtMost(keys, k) == [keys |-> keys, lo |-> 0, hi |-> k]

\* model.Add(sum(keys) >= k)
AtLeast(keys, k) == [keys |-> keys, lo |-> k, hi |-> Cardinality(keys)]

\* model.Add(sum(keys) == k)
Exactly(keys, k) == [keys |-> keys, lo |-> k, hi |-> k]

\* lines 28-32: one equation per (dep, day), summed over nurses AND slots
Coverage(D, N) ==
    { Exactly({ <<dep, n, day, s>> : n \in all_nurses(N), s \in SlotsOf(day) },
              NumShifts(day)) :
        dep \in all_departments(D), day \in all_days }

\* lines 34-40
ConsecutiveWeekday(D, N) ==
    UNION { { AtMost({ <<LastDep(D), n, day, s>>, <<LastDep(D), n, day, s + 1>> }, 2) :
                  s \in { x \in 0 .. (num_weekday_shifts - 1) : x < num_weekday_shifts - 1 } }
            : n \in all_nurses(N), day \in weekdays }

\* range(day + 1, min(day + 3, num_days))
RestWindow(day) == (day + 1) .. (Min2(day + 3, num_days) - 1)

\* the (next_day, next_s) pairs of lines 50-53 and 58-61
NextSlots(day) == UNION { { <<nd, ns>> : ns \in SlotsOf(nd) } : nd \in RestWindow(day) }

\* the (day, s) pairs of lines 44-48
RestSlots == UNION { { <<day, s>> : s \in SlotsOf(day) } :
                     day \in { d \in all_days : d < num_days - 2 } }

\* lines 49-54
RestSingle(D, N) ==
    UNION { { AtMost({ <<LastDep(D), n, ds[1], ds[2]>>, <<LastDep(D), n, nx[1], nx[2]>> }, 1) :
                  nx \in NextSlots(ds[1]) }
            : n \in all_nurses(N), ds \in RestSlots }

\* lines 56-62
RestDouble(D, N) ==
    UNION { { AtMost({ <<LastDep(D), n, ds[1], ds[2]>>, <<LastDep(D), n, ds[1], ds[2] + 1>>,
                       <<LastDep(D), n, nx[1], nx[2]>> }, 2) :
                  nx \in NextSlots(ds[1]) }
            : n \in all_nurses(N),
              ds \in { x \in RestSlots : x[2] < NumShifts(x[1]) - 1 } }

\* mutant of SingleDepartmentPerDay: one sum per slot index, over the departments only
SingleDepartmentPerDay_PerSlot(D, N) ==
    UNION { { AtMost({ <<dep, n, day, s>> : dep \in all_departments(D) }, 1) :
                  s \in SlotsOf(day) }
            : n \in all_nurses(N), day \in all_days }

\* lines 64-68
SingleDepartmentPerDay(D, N) ==
    { AtMost({ <<dep, n, day, s>> : dep \in all_departments(D), s \in SlotsOf(day) }, 1) :
        n \in all_nurses(N), day \in all_days }

\* mutant of WeekendOnce: one sum per weekend day instead of one over both
WeekendOnce_PerDay(D, N) ==
    { AtMost({ <<dep, n, day, s>> : dep \in all_departments(D),
                                    s \in 0 .. (num_weekend_shifts - 1) }, 1) :
        n \in all_nurses(N), day \in weekends }

\* lines 70-74
WeekendOnce(D, N) ==
    { AtMost({ <<dep, n, day, s>> : dep \in all_departments(D), day \in weekends,
                                    s \in 0 .. (num_weekend_shifts - 1) }, 1) :
        n \in all_nurses(N) }

\* lines 77-79
total_shifts(D) ==
    D * (num_weekday_shifts * Cardinality(weekdays) + num_weekend_shifts * Cardinality(weekends))

min_shifts_per_nurse(D, N) == total_shifts(D) \div N

max_shifts_per_nurse(D, N) ==
    IF total_shifts(D) % N # 0 THEN min_shifts_per_nurse(D, N) + 1
                               ELSE min_shifts_per_nurse(D, N)

\* lines 82-86
ShiftsWorked(D, n) ==
    UNION { { <<dep, n, day, s>> : dep \in all_departments(D), s \in SlotsOf(day) } :
            day \in all_days }

\* mutant of FairWorkload: line 88 is missing
FairWorkload_NoMax(D, N) ==
    { AtLeast(ShiftsWorked(D, n), min_shifts_per_nurse(D, N)) : n \in all_nurses(N) }

\* lines 81-88
FairWorkload(D, N) ==
    UNION { { AtLeast(ShiftsWorked(D, n), min_shifts_per_nurse(D, N)),
              AtMost(ShiftsWorked(D, n), max_shifts_per_nurse(D, N)) } :
            n \in all_nurses(N) }

\* mutant of Constraints: the rules of lines 34-88 never reach the model
Constraints_CoverageOnly(D, N) == Coverage(D, N)

\* the model main() hands to solver.Solve: the conjunction of everything added
Constraints(D, N) ==
    Coverage(D, N) \cup ConsecutiveWeekday(D, N) \cup RestSingle(D, N) \cup RestDouble(D, N)
        \cup SingleDepartmentPerDay(D, N) \cup WeekendOnce(D, N) \cup FairWorkload(D, N)

Holds(a, c) == Sum(a, c.keys) >= c.lo /\ Sum(a, c.keys) <= c.hi

-----------------------------------------------------------------------------
(* The instances explored *)

\* rows[day + 1][s + 1] is the nurse of (dep, day, s)
Rota(dep, rows) ==
    UNION { { <<dep, rows[day + 1][s + 1], day, s>> : s \in SlotsOf(day) } : day \in all_days }

Seed16 == Rota(0, << <<0, 1>>, <<2, 3>>, <<4, 5>>, <<0, 1>>, <<2, 3>>, <<4>>, <<5>> >>)

Seed17 == Rota(0, << <<0, 1>>, <<2, 3>>, <<4, 5>>, <<0, 1>>, <<2, 3>>, <<6>>, <<4>> >>)

Seed26 ==
    Rota(1, << <<0, 1>>, <<2, 3>>, <<4, 5>>, <<0, 1>>, <<2, 3>>, <<4>>, <<5>> >>)
        \cup Rota(0, << <<2, 3>>, <<4, 5>>, <<0, 1>>, <<2, 3>>, <<4, 5>>, <<0>>, <<1>> >>)

\* <<num_departments, num_nurses>> of the runs whose solutions are drawn from a pool
PoolInstances == { <<1, 6>>, <<1, 7>>, <<2, 6>> }

Seed(i) == IF i = <<1, 6>> THEN Seed16 ELSE IF i = <<1, 7>> THEN Seed17 ELSE Seed26

\* <<num_departments, num_nurses>> of the runs whose search is followed step by step
SearchInstances ==
    { <<d, n>> : d \in 1 .. MaxSearchDepartments, n \in 1 .. MaxSearchNurses } \cup { <<1, 6>> }

Instances == PoolInstances \cup SearchInstances

ConstraintsOf == [i \in Instances |-> Constraints(i[1], i[2])]

CoverageOf == [i \in Instances |-> Coverage(i[1], i[2])]

\* a is a feasible solution of the model of instance i (the coverage equations are
\* looked at first: most candidates fail there)
Satisfies(a, i) ==
    /\ \A c \in CoverageOf[i] : Holds(a, c)
    /\ \A c \in ConstraintsOf[i] : Holds(a, c)

\* The order in which the solver looks at the variables: day by day, and within
\* a day by department, nurse and slot.  KeyAt(D, N, j) is the j-th variable.
NumKeys(D, N) == Cardinality(Shifts(D, N))

KeyAt(D, N, j) ==
    LET W == D * N * num_weekday_shifts
        E == D * N * num_weekend_shifts
        j0 == j - 1
    IN  IF j0 < Cardinality(weekdays) * W
        THEN LET r == j0 % W
             IN  << r \div (N * num_weekday_shifts),
                    (r % (N * num_weekday_shifts)) \div num_weekday_shifts,
                    j0 \div W,
                    r % num_weekday_shifts >>
        ELSE LET q == j0 - Cardinality(weekdays) * W
                 r == q % E
             IN  << r \div (N * num_weekend_shifts),
                    (r % (N * num_weekend_shifts)) \div num_weekend_shifts,
                    Cardinality(weekdays) + (q \div E),
                    r % num_weekend_shifts >>

KeysOf == [i \in Instances |-> [j \in 1 .. NumKeys(i[1], i[2]) |-> KeyAt(i[1], i[2], j)]]

Flip(a, k) == IF k \in a THEN a \ {k} ELSE a \cup {k}

\* the feasible solutions of instance i that differ from a in at most m of the
\* variables from the from-th on
RECURSIVE Ball(_, _, _, _)
Ball(i, a, from, m) ==
    (IF Satisfies(a, i) THEN {a} ELSE {})
        \cup (IF m = 0 THEN {}
              ELSE UNION { Ball(i, Flip(a, KeysOf[i][j]), j + 1, m - 1) :
                           j \in from .. Len(KeysOf[i]) })

\* the feasible solutions the solver may hand to the callback: those at most
\* MaxFlips variables away from the seed
SolutionsOf == [i \in PoolInstances |-> Ball(i, Seed(i), 1, MaxFlips)]

-----------------------------------------------------------------------------
(* NursesPartialSolutionPrinter, lines 95-127 *)

\* line 108
EmptySchedule(D) ==
    [dep \in all_departments(D) |-> [day \in all_days |-> [s \in SlotsOf(day) |-> None]]]

\* lines 112-118: the nurses are scanned in increasing order and every true
\* variable overwrites the cell; a cell with no true variable is left alone
Extract(sched, a, D, N) ==
    [dep \in all_departments(D) |-> [day \in all_days |-> [s \in SlotsOf(day) |->
        LET T == { n \in all_nurses(N) : <<dep, n, day, s>> \in a }
        IN  IF T = {} THEN sched[dep][day][s] ELSE Max(T)]]]

\* lines 110-121
on_solution_callback(a) ==
    /\ sol' = a
    /\ seen' = seen \cup {a}
    /\ solution_count' = solution_count + 1
    /\ department_schedule' = Extract(department_schedule, a, num_departments, num_nurses)
    /\ stopped' = (solution_count + 1 >= solution_limit)

-----------------------------------------------------------------------------
(* main, lines 129-156 *)

DayName == <<"Monday", "Tuesday", "Wednesday", "Thursday", "Friday", "Saturday", "Sunday">>

\* line 151
NurseStr(nurse) == IF nurse # None THEN <<"Nurse", nurse>> ELSE <<"No nurse assigned", None>>

\* lines 140-156: the rows printed, one per (dep, day, s)
Table(sched, D) ==
    UNION { { <<dep, DayName[day + 1], s, NurseStr(sched[dep][day][s])>> :
                  dep \in all_departments(D), s \in SlotsOf(day) } : day \in all_days }

Start(I, L) ==
    /\ \E i \in I : num_departments = i[1] /\ num_nurses = i[2]
    /\ solution_limit \in L
    /\ pc = "solve"
    /\ trail = << >>
    /\ sol = {}
    /\ seen = {}
    /\ solution_count = 0
    /\ department_schedule = EmptySchedule(num_departments)
    /\ stopped = FALSE
    /\ status = "UNKNOWN"
    /\ reported = {}

\* the printer takes any limit
Init == Start(PoolInstances, 1 .. MaxLimit)

\* the solver finds one more feasible solution and calls the printer with it
Deliver ==
    /\ pc = "solve"
    /\ ~stopped
    /\ \E a \in SolutionsOf[<<num_departments, num_nurses>>] \ seen : on_solution_callback(a)
    /\ UNCHANGED <<num_departments, num_nurses, solution_limit, pc, trail, status, reported>>

\* line 135 returns after StopSearch
SolveReturns ==
    /\ pc = "solve"
    /\ stopped
    /\ status' = "FEASIBLE"
    /\ pc' = "report"
    /\ UNCHANGED <<num_departments, num_nurses, solution_limit, trail, sol, seen,
                   solution_count, department_schedule, stopped, reported>>

\* lines 137-156: whatever Solve returned, the printer's schedule is printed
Report ==
    /\ pc = "report"
    /\ reported' = Table(department_schedule, num_departments)
    /\ pc' = "done"
    /\ UNCHANGED <<num_departments, num_nurses, solution_limit, trail, sol, seen,
                   solution_count, department_schedule, stopped, status>>

Next == Deliver \/ SolveReturns \/ Report

Spec == Init /\ [][Next]_vars

-----------------------------------------------------------------------------
(* solver.Solve, line 135, followed step by step: a complete depth-first search *)
(* over the variables in KeyAt order, FALSE before TRUE, cutting a branch as    *)
(* soon as one constraint can no longer be met                                  *)

Inst == <<num_departments, num_nurses>>

\* the variables the decisions tr make true
Assignment(i, tr) == { KeysOf[i][j] : j \in { x \in 1 .. Len(tr) : tr[x] } }

Undecided(i, tr) == { KeysOf[i][j] : j \in (Len(tr) + 1) .. Len(KeysOf[i]) }

\* the undecided variables that must be false: they sit in a constraint whose sum
\* is at hi already
Forced(i, A, U) ==
    UNION { c.keys \cap U : c \in { x \in ConstraintsOf[i] : Sum(A, x.keys) >= x.hi } }

\* the constraints already lost: the sum is above hi, or can no longer reach lo
Lost(i, tr) ==
    LET A == Assignment(i, tr)
        U == Undecided(i, tr)
        F == U \ Forced(i, A, U)
    IN  { c \in ConstraintsOf[i] :
            \/ Sum(A, c.keys) > c.hi
            \/ Sum(A, c.keys) + Sum(F, c.keys) < c.lo }

Possible(i, tr) == Lost(i, tr) = {}

Complete(i, tr) == Len(tr) = Len(KeysOf[i])

\* this branch is finished: it is cut, or it is a solution already handed over
Closed(i, tr) ==
    IF Possible(i, tr) THEN Complete(i, tr) /\ Assignment(i, tr) \in seen ELSE TRUE

\* back to the last FALSE decision, now TRUE
Retreat(tr) ==
    LET j == Max({ x \in 1 .. Len(tr) : ~tr[x] })
    IN  Append(SubSeq(tr, 1, j - 1), TRUE)

\* line 130: main asks for the first solution only
main_solution_limit == 1

InitSearch == Start(SearchInstances, {main_solution_limit})

Branch ==
    /\ pc = "solve"
    /\ ~stopped
    /\ ~Complete(Inst, trail)
    /\ Possible(Inst, trail)
    /\ trail' = Append(trail, FALSE)
    /\ UNCHANGED <<num_departments, num_nurses, solution_limit, pc, sol, seen,
                   solution_count, department_schedule, stopped, status, reported>>

Backtrack ==
    /\ pc = "solve"
    /\ ~stopped
    /\ Closed(Inst, trail)
    /\ { x \in 1 .. Len(trail) : ~trail[x] } # {}
    /\ trail' = Retreat(trail)
    /\ UNCHANGED <<num_departments, num_nurses, solution_limit, pc, sol, seen,
                   solution_count, department_schedule, stopped, status, reported>>

\* every variable is decided and every constraint holds: the printer is called
Leaf ==
    /\ pc = "solve"
    /\ ~stopped
    /\ Complete(Inst, trail)
    /\ Possible(Inst, trail)
    /\ Assignment(Inst, trail) \notin seen
    /\ on_solution_callback(Assignment(Inst, trail))
    /\ UNCHANGED <<num_departments, num_nurses, solution_limit, pc, trail, status, reported>>

\* the tree is exhausted: line 135 returns
Exhausted ==
    /\ pc = "solve"
    /\ ~stopped
    /\ Closed(Inst, trail)
    /\ { x \in 1 .. Len(trail) : ~trail[x] } = {}
    /\ status' = IF solution_count > 0 THEN "OPTIMAL" ELSE "INFEASIBLE"
    /\ pc' = "report"
    /\ UNCHANGED <<num_departments, num_nurses, solution_limit, trail, sol, seen,
                   solution_count, department_schedule, stopped, reported>>

NextSearch == Branch \/ Backtrack \/ Leaf \/ Exhausted \/ SolveReturns \/ Report

SpecSearch == InitSearch /\ [][NextSearch]_vars

-----------------------------------------------------------------------------
(* Properties *)

Cells == UNION { { <<dep, day, s>> : dep \in all_departments(num_departments),
                                     s \in SlotsOf(day) } : day \in all_days }

\* the nurses whose variable of the cell is true in a
NursesOf(a, cell) ==
    { n \in all_nurses(num_nurses) : <<cell[1], n, cell[2], cell[3]>> \in a }

\* the number of true variables of nurse n on the given days
Worked(a, n, days) == Cardinality({ k \in a : k[2] = n /\ k[3] \in days })

BackToBack(a) ==
    \E k \in a : k[3] \in weekdays /\ k[4] = 0 /\ <<k[1], k[2], k[3], 1>> \in a

\* C1: in every solution handed to the printer, every shift slot (department,
\* day, slot) has exactly one nurse whose variable is true.
C1_CoverageComplete ==
    solution_count > 0 => \A cell \in Cells : Cardinality(NursesOf(sol, cell)) = 1

\* C2: in every solution, a nurse who works a slot on day d works no slot, in any
\* department, on day d+1 or d+2 (days beyond the horizon ignored).
C2_RestPeriod ==
    solution_count > 0 =>
        \A n \in all_nurses(num_nurses) : \A d \in all_days :
            Worked(sol, n, {d}) > 0 =>
                Worked(sol, n, { d + 1, d + 2 } \cap all_days) = 0

C4_WeekendOnce ==
    solution_count > 0 =>
        \A n \in all_nurses(num_nurses) :
            ~(Worked(sol, n, {5}) > 0 /\ Worked(sol, n, {6}) > 0)

C4_Witness ==
    /\ solution_count > 0
    /\ \E n \in all_nurses(num_nurses) : Worked(sol, n, {5}) = 1 /\ Worked(sol, n, {6}) = 0
    /\ \E n \in all_nurses(num_nurses) : Worked(sol, n, {6}) = 1 /\ Worked(sol, n, {5}) = 0

\* C5: in every solution, every nurse's number of true variables lies between
\* floor(totalShifts / nurses) and that plus one when the division is inexact,
\* with totalShifts = departments * (2*5 + 1*2).
C5_FairBand ==
    solution_count > 0 =>
        LET total == num_departments * (2 * 5 + 1 * 2)
            lo == total \div num_nurses
            hi == IF lo * num_nurses = total THEN lo ELSE lo + 1
        IN  \A n \in all_nurses(num_nurses) :
                Worked(sol, n, all_days) >= lo /\ Worked(sol, n, all_days) <= hi

\* an inexact division, with nurses at both ends of the band
C5_Witness ==
    /\ solution_count > 0
    /\ num_departments = 1 /\ num_nurses = 7
    /\ \E n \in all_nurses(num_nurses) : Worked(sol, n, all_days) = 1
    /\ \E n \in all_nurses(num_nurses) : Worked(sol, n, all_days) = 2

\* C8: back-to-back weekday slots are permitted: some feasible solution, of some
\* instance, has a nurse with both slots of one weekday in one department (looked
\* at once a run is over: the solution it printed, or any other feasible one).
C8_BackToBackPermitted ==
    pc = "done" =>
        \/ solution_count > 0 /\ BackToBack(sol)
        \/ \E i \in PoolInstances : \E a \in SolutionsOf[i] : BackToBack(a)

\* C9: after every callback, a cell of the department schedule holds nurse n only
\* if n's variable of that cell is true in the solution just read, and holds None
\* if no nurse's variable of that cell is true in it.
C9_ExtractionLatest ==
    solution_count > 0 =>
        \A cell \in Cells :
            LET v == department_schedule[cell[1]][cell[2]][cell[3]]
            IN  /\ v # None => v \in NursesOf(sol, cell)
                /\ NursesOf(sol, cell) = {} => v = None

\* C6 as stated: with 2 departments and 3 nurses the model is satisfiable, so the
\* solver does not return without a solution.
C6_ScenarioFeasible ==
    (num_departments = 2 /\ num_nurses = 3 /\ pc # "solve") => solution_count > 0

\* C6 as amended: with 2 departments and 3 nurses the model is unsatisfiable: no
\* solution is ever handed to the printer and the solver returns INFEASIBLE.
C6_ScenarioInfeasible ==
    (num_departments = 2 /\ num_nurses = 3) =>
        /\ solution_count = 0
        /\ pc # "solve" => status = "INFEASIBLE"

C6_Witness ==
    num_departments = 2 /\ num_nurses = 3 /\ pc = "done" /\ status = "INFEASIBLE"

\* C7: when the model is infeasible no department schedule is handed to the
\* reporter: nothing is printed.
C7_InfeasibleIsTerminal ==
    status = "INFEASIBLE" => reported = {}

\* C10: if the model is satisfiable then num_nurses >= 2 * num_departments; every
\* instance with fewer nurses ends INFEASIBLE.
C10_StaffingNecessary ==
    /\ solution_count > 0 => num_nurses >= 2 * num_departments
    /\ (pc # "solve" /\ num_nurses < 2 * num_departments) => status = "INFEASIBLE"

C10_Witness ==
    pc = "done" /\ num_nurses < 2 * num_departments /\ status = "INFEASIBLE"

====
